---- MODULE Spec2Model ----
(***************************************************************************)
(* decoded-char: a `char` paired with the number of encoding units it      *)
(* occupied in its source (`DecodedChar`), and the iterator adapters that  *)
(* annotate a stream of characters with that length (`Utf8Decoded`,        *)
(* `FallibleUtf8Decoded`, `Utf16Decoded`, `FallibleUtf16Decoded`,          *)
(* `str::decoded_chars`).                                                  *)
(*                                                                         *)
(* A `char` is modelled by its Unicode scalar value, a `usize` by a        *)
(* natural number, an `Option` / `Result` by a tagged record.              *)
(***************************************************************************)
EXTENDS Integers, Sequences, FiniteSets

VARIABLES
    itemType,   \* Item type of the wrapped producer: "char", "result", "str"
    src,        \* what the wrapped producer hands out, pull after pull
    text,       \* the characters of the string decoded_chars is called on
    dec8,       \* the UTF-8 adapter (Utf8Decoded or FallibleUtf8Decoded)
    dec16,      \* the UTF-16 adapter (Utf16Decoded or FallibleUtf16Decoded)
    out8,       \* what the pulls on dec8 returned, in order
    out16,      \* what the pulls on dec16 returned, in order
    arg_c,      \* the character handed to a DecodedChar constructor
    arg_len,    \* the length handed to DecodedChar::new
    ctor,       \* the constructor that built dc
    dc,         \* the DecodedChar value
    ret         \* the last value an operation on dc returned

vars == <<itemType, src, text, dec8, dec16, out8, out16, arg_c, arg_len, ctor, dc, ret>>

iterVars == <<itemType, src, text, dec8, dec16, out8, out16>>

charVars == <<arg_c, arg_len, ctor, dc, ret>>

-----------------------------------------------------------------------------
(* Bounds *)

\* longest wrapped sequence
MaxLen == 3

\* most pulls made on one adapter
MaxPulls == 4

\* longest string decoded_chars is called on
MaxStrLen == 3

\* scalar values taken on each side of an encoding-length boundary
Spread == 1

\* largest length handed to DecodedChar::new
MaxLenArg == 5

-----------------------------------------------------------------------------
(* Values *)

None == [tag |-> "None"]

Some(v) == [tag |-> "Some", val |-> v]

Ok(v) == [tag |-> "Ok", val |-> v]

Err(e) == [tag |-> "Err", err |-> e]

\* a `char`: 0..0x10FFFF without the surrogates 0xD800..0xDFFF
IsScalar(c) == c \in 0..1114111 /\ ~(c \in 55296..57343)

\* the scalar values around which an encoding length changes, and the
\* characters of the documented scenarios ('a', 'x', U+E9, U+4E2D, U+1F600)
Landmarks == {0, 97, 120, 127, 128, 233, 2047, 2048, 20013, 55295, 57344,
              65535, 65536, 128512, 1114111}

Chars == {c \in {l + d : l \in Landmarks, d \in (0 - Spread)..Spread} : IsScalar(c)}

Lens == 0..MaxLenArg

\* the characters the wrapped sequences are made of: 1, 2, 3 and 4 UTF-8 bytes
IterChars == {97, 233, 20013, 128512}

\* the error values of a fallible producer (opaque to the adapters)
Errors == {"E1", "E2"}

SeqsUpTo(S, n) == UNION {[1..k -> S] : k \in 0..n}

\* char::len_utf8
len_utf8(c) ==
    IF c < 128 THEN 1
    ELSE IF c < 2048 THEN 2
    ELSE IF c < 65536 THEN 3
    ELSE 4

\* char::len_utf16
len_utf16(c) == IF c < 65536 THEN 1 ELSE 2

\* the UTF-8 encoding of a scalar value, as bytes
EncodeUtf8(c) ==
    IF c < 128 THEN <<c>>
    ELSE IF c < 2048 THEN <<192 + (c \div 64), 128 + (c % 64)>>
    ELSE IF c < 65536 THEN
        <<224 + (c \div 4096), 128 + ((c \div 64) % 64), 128 + (c % 64)>>
    ELSE
        <<240 + (c \div 262144), 128 + ((c \div 4096) % 64),
          128 + ((c \div 64) % 64), 128 + (c % 64)>>

\* the UTF-16 encoding of a scalar value, as 16-bit code units
EncodeUtf16(c) ==
    IF c < 65536 THEN <<c>>
    ELSE <<55296 + ((c - 65536) \div 1024), 56320 + ((c - 65536) % 1024)>>

RECURSIVE StrBytes(_)
\* the bytes of a `str` holding the characters cs
StrBytes(cs) == IF cs = <<>> THEN <<>> ELSE EncodeUtf8(Head(cs)) \o StrBytes(Tail(cs))

-----------------------------------------------------------------------------
(* DecodedChar *)

\* plausible slip: the constructor "repairs" the length
DecodedChar_new_Normalised(c, len) == [c |-> c, len |-> len_utf8(c)]

DecodedChar_new(c, len) == [c |-> c, len |-> len]

\* plausible slip: the UTF-16 length in the UTF-8 constructor
DecodedChar_from_utf8_Utf16Len(c) == [c |-> c, len |-> len_utf16(c)]

DecodedChar_from_utf8(c) == [c |-> c, len |-> len_utf8(c)]

DecodedChar_from_utf16(c) == [c |-> c, len |-> len_utf16(c)]

DecodedChar_chr(self) == self.c

DecodedChar_len(self) == self.len

\* plausible slip: the wrong field
DecodedChar_into_char_LenField(self) == self.len

DecodedChar_into_char(self) == self.c

DecodedChar_into_len(self) == self.len

\* impl From<DecodedChar> for char
char_from(d) == DecodedChar_into_char(d)

\* impl From<DecodedChar> for u32: the scalar value of the character, which is
\* at most 0x10FFFF and so never wraps in 32 bits
u32_from(d) == DecodedChar_into_char(d)

DecodedChar_as_ref(self) == self.c

DecodedChar_borrow(self) == self.c

\* plausible slip: the wrong field
DecodedChar_deref_LenField(self) == self.len

DecodedChar_deref(self) == self.c

-----------------------------------------------------------------------------
(* The wrapped producers *)

\* a caller-supplied iterator that hands out the items of a sequence, then None;
\* `pulled` counts the calls of its next()
IterOf(items) == [kind |-> "iter", rest |-> items, pulled |-> 0]

\* std::str::Chars over the bytes of a str
CharsOf(bytes) == [kind |-> "chars", rest |-> bytes, pulled |-> 0]

\* the first character of a non-empty UTF-8 byte sequence and its width
CharsDecode(bytes) ==
    LET b0 == bytes[1] IN
    IF b0 < 128 THEN [c |-> b0, n |-> 1]
    ELSE IF b0 < 224 THEN [c |-> (b0 % 32) * 64 + (bytes[2] % 64), n |-> 2]
    ELSE IF b0 < 240 THEN
        [c |-> (b0 % 16) * 4096 + (bytes[2] % 64) * 64 + (bytes[3] % 64), n |-> 3]
    ELSE
        [c |-> (b0 % 8) * 262144 + (bytes[2] % 64) * 4096
                + (bytes[3] % 64) * 64 + (bytes[4] % 64),
         n |-> 4]

\* self.0.next(): the item handed out and the producer afterwards
Inner_next(p) ==
    IF p.rest = <<>> THEN
        [item |-> None, inner |-> [p EXCEPT !.pulled = @ + 1]]
    ELSE IF p.kind = "chars" THEN
        LET d == CharsDecode(p.rest) IN
        [item  |-> Some(d.c),
         inner |-> [p EXCEPT !.rest = SubSeq(p.rest, d.n + 1, Len(p.rest)),
                             !.pulled = @ + 1]]
    ELSE
        [item  |-> Head(p.rest),
         inner |-> [p EXCEPT !.rest = Tail(p.rest), !.pulled = @ + 1]]

\* Option::map(DecodedChar::from_utf8)
OptionMap_from_utf8(o) == IF o.tag = "None" THEN None ELSE Some(DecodedChar_from_utf8(o.val))

\* Option::map(DecodedChar::from_utf16)
OptionMap_from_utf16(o) == IF o.tag = "None" THEN None ELSE Some(DecodedChar_from_utf16(o.val))

\* Result::map(DecodedChar::from_utf8)
ResultMap_from_utf8(r) == IF r.tag = "Ok" THEN Ok(DecodedChar_from_utf8(r.val)) ELSE r

\* Result::map(DecodedChar::from_utf16)
ResultMap_from_utf16(r) == IF r.tag = "Ok" THEN Ok(DecodedChar_from_utf16(r.val)) ELSE r

\* Option::map(|result| result.map(DecodedChar::from_utf8))
OptionMap_ResultMap_from_utf8(o) ==
    IF o.tag = "None" THEN None ELSE Some(ResultMap_from_utf8(o.val))

\* Option::map(|result| result.map(DecodedChar::from_utf16))
OptionMap_ResultMap_from_utf16(o) ==
    IF o.tag = "None" THEN None ELSE Some(ResultMap_from_utf16(o.val))

-----------------------------------------------------------------------------
(* The adapters: a tuple struct holding the wrapped producer *)

Utf8Decoded_new(chars) == [inner |-> chars]

FallibleUtf8Decoded_new(chars) == [inner |-> chars]

Utf16Decoded_new(chars) == [inner |-> chars]

FallibleUtf16Decoded_new(chars) == [inner |-> chars]

\* plausible slip: the adapter fuses itself once the producer reported its end
Utf8Decoded_next_Fused(self) ==
    IF "done" \in DOMAIN self THEN [self |-> self, ret |-> None]
    ELSE
        LET r == Inner_next(self.inner) IN
        IF r.item = None THEN
            [self |-> [inner |-> r.inner, done |-> TRUE], ret |-> None]
        ELSE
            [self |-> [inner |-> r.inner], ret |-> OptionMap_from_utf8(r.item)]

\* plausible slip: the UTF-16 constructor in the UTF-8 adapter
Utf8Decoded_next_Utf16(self) ==
    LET r == Inner_next(self.inner) IN
    [self |-> [self EXCEPT !.inner = r.inner],
     ret  |-> OptionMap_from_utf16(r.item)]

Utf8Decoded_next(self) ==
    LET r == Inner_next(self.inner) IN
    [self |-> [self EXCEPT !.inner = r.inner],
     ret  |-> OptionMap_from_utf8(r.item)]

\* plausible slip: an error ends the sequence
FallibleUtf8Decoded_next_StopAtErr(self) ==
    LET r == Inner_next(self.inner)
    IN  [self |-> [self EXCEPT !.inner = r.inner],
         ret  |-> IF r.item # None /\ r.item.val.tag = "Err" THEN None
                  ELSE OptionMap_ResultMap_from_utf8(r.item)]

FallibleUtf8Decoded_next(self) ==
    LET r == Inner_next(self.inner)
    IN  [self |-> [self EXCEPT !.inner = r.inner],
         ret  |-> OptionMap_ResultMap_from_utf8(r.item)]

\* plausible slip: the adapter looks one element ahead and drops it
Utf16Decoded_next_LookAhead(self) ==
    LET r == Inner_next(self.inner)
        s == Inner_next(r.inner)
    IN  [self |-> [self EXCEPT !.inner = s.inner],
         ret  |-> OptionMap_from_utf16(r.item)]

Utf16Decoded_next(self) ==
    LET r == Inner_next(self.inner) IN
    [self |-> [self EXCEPT !.inner = r.inner],
     ret  |-> OptionMap_from_utf16(r.item)]

\* plausible slip: the UTF-8 constructor in the UTF-16 adapter
FallibleUtf16Decoded_next_Utf8(self) ==
    LET r == Inner_next(self.inner)
    IN  [self |-> [self EXCEPT !.inner = r.inner],
         ret  |-> OptionMap_ResultMap_from_utf8(r.item)]

FallibleUtf16Decoded_next(self) ==
    LET r == Inner_next(self.inner)
    IN  [self |-> [self EXCEPT !.inner = r.inner],
         ret  |-> OptionMap_ResultMap_from_utf16(r.item)]

\* plausible slip: the bytes of the string taken for its characters
decoded_chars_Bytes(bytes) ==
    Utf8Decoded_new(IterOf([i \in 1..Len(bytes) |-> Some(bytes[i])]))

\* <str as DecodedChars>::decoded_chars
decoded_chars(bytes) == Utf8Decoded_new(CharsOf(bytes))

-----------------------------------------------------------------------------
(* The adapters at work *)

NoAdapter == [inner |-> IterOf(<<>>)]

NoValue == [state |-> "none"]

Moved == [state |-> "moved"]

NoRet == [op |-> "none"]

\* what successive next() calls of a producer of `char` return: a character,
\* or None (a producer that is not fused may go on after a None)
CharItems == {Some(c) : c \in IterChars} \cup {None}

\* the same for a producer of Result<char, E>
ResultItems == {Some(Ok(c)) : c \in IterChars} \cup {Some(Err(e)) : e \in Errors} \cup {None}

CharIdle ==
    /\ arg_c = 0
    /\ arg_len = 0
    /\ ctor = "none"
    /\ dc = NoValue
    /\ ret = NoRet

InitChars ==
    /\ itemType = "char"
    /\ src \in SeqsUpTo(CharItems, MaxLen)
    /\ text = <<>>
    /\ dec8 = Utf8Decoded_new(IterOf(src))
    /\ dec16 = Utf16Decoded_new(IterOf(src))

InitResults ==
    /\ itemType = "result"
    /\ src \in SeqsUpTo(ResultItems, MaxLen)
    /\ text = <<>>
    /\ dec8 = FallibleUtf8Decoded_new(IterOf(src))
    /\ dec16 = FallibleUtf16Decoded_new(IterOf(src))

InitStr ==
    /\ itemType = "str"
    /\ text \in SeqsUpTo(IterChars, MaxStrLen)
    /\ src = StrBytes(text)
    /\ dec8 = decoded_chars(src)
    /\ dec16 = NoAdapter

Init ==
    /\ InitChars \/ InitResults \/ InitStr
    /\ out8 = <<>>
    /\ out16 = <<>>
    /\ CharIdle

Utf8DecodedNext ==
    /\ itemType \in {"char", "str"}
    /\ Len(out8) < MaxPulls
    /\ LET r == Utf8Decoded_next(dec8) IN
        /\ dec8' = r.self
        /\ out8' = Append(out8, r.ret)
    /\ UNCHANGED <<itemType, src, text, dec16, out16, charVars>>

FallibleUtf8DecodedNext ==
    /\ itemType = "result"
    /\ Len(out8) < MaxPulls
    /\ LET r == FallibleUtf8Decoded_next(dec8) IN
        /\ dec8' = r.self
        /\ out8' = Append(out8, r.ret)
    /\ UNCHANGED <<itemType, src, text, dec16, out16, charVars>>

Utf16DecodedNext ==
    /\ itemType = "char"
    /\ Len(out16) < MaxPulls
    /\ LET r == Utf16Decoded_next(dec16) IN
        /\ dec16' = r.self
        /\ out16' = Append(out16, r.ret)
    /\ UNCHANGED <<itemType, src, text, dec8, out8, charVars>>

FallibleUtf16DecodedNext ==
    /\ itemType = "result"
    /\ Len(out16) < MaxPulls
    /\ LET r == FallibleUtf16Decoded_next(dec16) IN
        /\ dec16' = r.self
        /\ out16' = Append(out16, r.ret)
    /\ UNCHANGED <<itemType, src, text, dec8, out8, charVars>>

Next ==
    \/ Utf8DecodedNext
    \/ FallibleUtf8DecodedNext
    \/ Utf16DecodedNext
    \/ FallibleUtf16DecodedNext

Spec == Init /\ [][Next]_vars

-----------------------------------------------------------------------------
(* DecodedChar at work *)

IterIdle ==
    /\ itemType = "none"
    /\ src = <<>>
    /\ text = <<>>
    /\ dec8 = NoAdapter
    /\ dec16 = NoAdapter
    /\ out8 = <<>>
    /\ out16 = <<>>

InitChar ==
    /\ IterIdle
    /\ arg_c \in Chars
    /\ arg_len \in Lens
    /\ ctor = "none"
    /\ dc = NoValue
    /\ ret = NoRet

Live == dc # NoValue /\ dc # Moved

CallNew ==
    /\ dc = NoValue
    /\ dc' = DecodedChar_new(arg_c, arg_len)
    /\ ctor' = "new"
    /\ UNCHANGED <<arg_c, arg_len, ret, iterVars>>

CallFromUtf8 ==
    /\ dc = NoValue
    /\ dc' = DecodedChar_from_utf8(arg_c)
    /\ ctor' = "from_utf8"
    /\ UNCHANGED <<arg_c, arg_len, ret, iterVars>>

CallFromUtf16 ==
    /\ dc = NoValue
    /\ dc' = DecodedChar_from_utf16(arg_c)
    /\ ctor' = "from_utf16"
    /\ UNCHANGED <<arg_c, arg_len, ret, iterVars>>

CallChr ==
    /\ Live
    /\ ret' = [op |-> "chr", val |-> DecodedChar_chr(dc)]
    /\ UNCHANGED <<arg_c, arg_len, ctor, dc, iterVars>>

CallLen ==
    /\ Live
    /\ ret' = [op |-> "len", val |-> DecodedChar_len(dc)]
    /\ UNCHANGED <<arg_c, arg_len, ctor, dc, iterVars>>

CallAsRef ==
    /\ Live
    /\ ret' = [op |-> "as_ref", val |-> DecodedChar_as_ref(dc)]
    /\ UNCHANGED <<arg_c, arg_len, ctor, dc, iterVars>>

CallBorrow ==
    /\ Live
    /\ ret' = [op |-> "borrow", val |-> DecodedChar_borrow(dc)]
    /\ UNCHANGED <<arg_c, arg_len, ctor, dc, iterVars>>

CallDeref ==
    /\ Live
    /\ ret' = [op |-> "deref", val |-> DecodedChar_deref(dc)]
    /\ UNCHANGED <<arg_c, arg_len, ctor, dc, iterVars>>

CallIntoChar ==
    /\ Live
    /\ ret' = [op |-> "into_char", val |-> DecodedChar_into_char(dc)]
    /\ dc' = Moved
    /\ UNCHANGED <<arg_c, arg_len, ctor, iterVars>>

CallIntoLen ==
    /\ Live
    /\ ret' = [op |-> "into_len", val |-> DecodedChar_into_len(dc)]
    /\ dc' = Moved
    /\ UNCHANGED <<arg_c, arg_len, ctor, iterVars>>

CallCharFrom ==
    /\ Live
    /\ ret' = [op |-> "char_from", val |-> char_from(dc)]
    /\ dc' = Moved
    /\ UNCHANGED <<arg_c, arg_len, ctor, iterVars>>

CallU32From ==
    /\ Live
    /\ ret' = [op |-> "u32_from", val |-> u32_from(dc)]
    /\ dc' = Moved
    /\ UNCHANGED <<arg_c, arg_len, ctor, iterVars>>

NextChar ==
    \/ CallNew
    \/ CallFromUtf8
    \/ CallFromUtf16
    \/ CallChr
    \/ CallLen
    \/ CallAsRef
    \/ CallBorrow
    \/ CallDeref
    \/ CallIntoChar
    \/ CallIntoLen
    \/ CallCharFrom
    \/ CallU32From

SpecChar == InitChar /\ [][NextChar]_vars

-----------------------------------------------------------------------------
(* Properties of DecodedChar, under SpecChar *)

C4_TransparentComparison ==
    (ctor = "new" /\ ret.op \in {"deref", "as_ref", "borrow"}) =>
        \A y \in Chars :
            /\ (ret.val = y) <=> (arg_c = y)
            /\ (ret.val < y) <=> (arg_c < y)

\* 'x' stored with the length 0, which no encoding gives it, read through deref
C4_Witness ==
    /\ ctor = "new"
    /\ arg_c = 120
    /\ arg_len = 0
    /\ dc = [c |-> 120, len |-> 0]
    /\ ret = [op |-> "deref", val |-> 120]

\* C6: new(c, len) checks nothing and always returns a value: chr() is c and
\* len() is the len that was given, also when it is not a length of c.
C6_NewIsUnchecked ==
    /\ (ctor = "new" /\ Live) => dc = [c |-> arg_c, len |-> arg_len]
    /\ (ctor = "new" /\ ret.op = "chr") => ret.val = arg_c
    /\ (ctor = "new" /\ ret.op = "len") => ret.val = arg_len

\* 'a', one byte in UTF-8 and one unit in UTF-16, stored with the length 5
C6_Witness ==
    /\ ctor = "new"
    /\ arg_c = 97
    /\ arg_len = 5
    /\ Live
    /\ ret = [op |-> "len", val |-> 5]

\* C7: from_utf8(c).into_char() is c, and so is char::from(from_utf8(c)).
C7_RoundTrip ==
    (ctor = "from_utf8" /\ ret.op \in {"into_char", "char_from"}) => ret.val = arg_c

\* U+1F600 built by from_utf8 and unwrapped again
C7_Witness ==
    /\ ctor = "from_utf8"
    /\ arg_c = 128512
    /\ dc = Moved
    /\ ret = [op |-> "into_char", val |-> 128512]

-----------------------------------------------------------------------------
(* Properties of the adapters, under Spec *)

\* the item the wrapped producer hands out at its i-th pull
Given(i) ==
    IF itemType = "str"
    THEN IF i <= Len(text) THEN Some(text[i]) ELSE None
    ELSE IF i <= Len(src) THEN src[i] ELSE None

AllSome(items) == \A i \in 1..Len(items) : items[i] # None

\* the units a character takes in an encoding, "utf8" or "utf16"
Units(enc, c) == IF enc = "utf8" THEN Len(EncodeUtf8(c)) ELSE IF c <= 65535 THEN 1 ELSE 2

\* an item of a producer of `char` with the length the encoding gives it
Annotated(item, enc) ==
    IF item = None THEN None
    ELSE Some([c |-> item.val, len |-> Units(enc, item.val)])

\* an item of a producer of Result<char, E>: the error as it is, the character
\* with the length the encoding gives it
AnnotatedResult(item, enc) ==
    IF item = None THEN None
    ELSE IF item.val.tag = "Err" THEN item
    ELSE Some(Ok([c |-> item.val.val, len |-> Units(enc, item.val.val)]))

\* an adapter's output without the lengths
Unannotated(o) ==
    IF o = None THEN None
    ELSE IF itemType = "result"
         THEN IF o.val.tag = "Err" THEN o ELSE Some(Ok(o.val.val.c))
         ELSE Some(o.val.c)

Min(a, b) == IF a < b THEN a ELSE b

\* C2: a Utf8Decoded around the characters c0 .. cn yields from_utf8(c0) ..
\* from_utf8(cn) in that order and then the end of the sequence: nothing is
\* dropped, repeated or reordered.
C2_Utf8DecodedMapsInOrder ==
    (itemType = "char" /\ AllSome(src)) =>
        out8 = [i \in 1..Len(out8) |->
                    IF i <= Len(src) THEN Some(DecodedChar_from_utf8(src[i].val))
                    ELSE None]

\* 'a', U+1F600, U+E9 pulled to the end
C2_Witness ==
    /\ itemType = "char"
    /\ src = <<Some(97), Some(128512), Some(233)>>
    /\ out8 = <<Some([c |-> 97, len |-> 1]), Some([c |-> 128512, len |-> 4]),
                Some([c |-> 233, len |-> 2]), None>>

\* C3: the fallible adapters yield Ok of the annotated character for every
\* success, the very error value for an error, and go on with the elements
\* after an error as before it.
C3_ErrorsPassThrough ==
    itemType = "result" =>
        /\ \A i \in 1..Len(out8) :
            out8[i] = AnnotatedResult(Given(i), "utf8")
        /\ \A i \in 1..Len(out16) :
            out16[i] = AnnotatedResult(Given(i), "utf16")

\* an error between two successes, all three pulled
C3_Witness ==
    /\ itemType = "result"
    /\ src = <<Some(Ok(97)), Some(Err("E1")), Some(Ok(20013))>>
    /\ out8 = <<Some(Ok([c |-> 97, len |-> 1])), Some(Err("E1")),
                Some(Ok([c |-> 20013, len |-> 3]))>>

\* C5: every pull on an adapter pulls the wrapped producer exactly once: after
\* n pulls the producer was pulled n times, and a pull returns the end of the
\* sequence exactly when the producer reported it at that pull.
C5_OnePullPerPull ==
    /\ dec8.inner.pulled = Len(out8)
    /\ dec16.inner.pulled = Len(out16)
    /\ \A i \in 1..Len(out8) : (out8[i] = None) <=> (Given(i) = None)
    /\ \A i \in 1..Len(out16) : (out16[i] = None) <=> (Given(i) = None)

\* two characters and the end pulled through Utf16Decoded
C5_Witness ==
    /\ itemType = "char"
    /\ src = <<Some(97), Some(128512)>>
    /\ Len(out16) = 3
    /\ out16[3] = None
    /\ dec16.inner.pulled = 3

RECURSIVE Utf8DecodedYields(_, _)
\* what n pulls on a Utf8Decoded return
Utf8DecodedYields(self, n) ==
    IF n = 0 THEN <<>>
    ELSE LET r == Utf8Decoded_next(self) IN <<r.ret>> \o Utf8DecodedYields(r.self, n - 1)

\* C9: s.decoded_chars() yields what a Utf8Decoded around the characters of s
\* yields: each character of s in order with its UTF-8 byte length, then the
\* end; for "a", U+E9, U+4E2D the lengths are 1, 2, 3.
C9_DecodedChars ==
    itemType = "str" =>
        /\ out8 = Utf8DecodedYields(
                      Utf8Decoded_new(IterOf([i \in 1..Len(text) |-> Some(text[i])])),
                      Len(out8))
        /\ \A i \in 1..Len(out8) : out8[i] = Annotated(Given(i), "utf8")
        /\ (text = <<97, 233, 20013>> /\ Len(out8) = 4) =>
                out8 = <<Some([c |-> 97, len |-> 1]), Some([c |-> 233, len |-> 2]),
                         Some([c |-> 20013, len |-> 3]), None>>

\* the documented text pulled to its end
C9_Witness ==
    /\ itemType = "str"
    /\ text = <<97, 233, 20013>>
    /\ src = <<97, 195, 169, 228, 184, 173>>
    /\ Len(out8) = 4
    /\ out8[3] = Some([c |-> 20013, len |-> 3])
    /\ out8[4] = None

\* what an adapter yields for an item of the producer
Yielded8(item) ==
    IF itemType = "result" THEN AnnotatedResult(item, "utf8")
    ELSE Annotated(item, "utf8")

Yielded16(item) ==
    IF itemType = "result" THEN AnnotatedResult(item, "utf16")
    ELSE Annotated(item, "utf16")

\* C10: the adapters do not remember the end of the sequence: a pull made
\* after a pull that returned the end still pulls the producer once and
\* returns what it handed out, annotated, so a producer that goes on after
\* its end is followed.
C10_EndIsNotLatched ==
    /\ \A j \in 1..Len(out8) :
        (\E i \in 1..(j - 1) : out8[i] = None) =>
            /\ out8[j] = Yielded8(Given(j))
            /\ dec8.inner.pulled = Len(out8)
    /\ \A j \in 1..Len(out16) :
        (\E i \in 1..(j - 1) : out16[i] = None) =>
            /\ out16[j] = Yielded16(Given(j))
            /\ dec16.inner.pulled = Len(out16)

\* a producer that reports its end and then hands out U+E9
C10_Witness ==
    /\ itemType = "char"
    /\ src = <<Some(97), None, Some(233)>>
    /\ out8 = <<Some([c |-> 97, len |-> 1]), None, Some([c |-> 233, len |-> 2])>>

====
